---- MODULE Spec2Model ----
(***************************************************************************)
(* Model of flashlight/client/handler.go: the CONNECT interceptor of the   *)
(* Lantern client.  Every handler h is one call of Client.ServeHTTP, run   *)
(* by the HTTP server on its own goroutine.  The hijacked client           *)
(* connection of handler h is the key h of clientConns and the dialed      *)
(* outbound connection of handler h is the key h of conns (the maps are    *)
(* keyed by connection identity and every attempt owns one connection of   *)
(* each kind).                                                             *)
(***************************************************************************)
EXTENDS Integers, Sequences, FiniteSets, TLC

\* Number of requests the HTTP server hands to ServeHTTP, all concurrently.
NumHandlers == 2

Handlers == 1..NumHandlers

httpConnectMethod == "CONNECT"

\* Request methods the server may deliver.
Methods == {"CONNECT", "GET"}

\* Values of runtime.GOOS the client is built for.
Platforms == {"android", "linux"}

\* No writer holds muConns.
NoHandler == 0

VARIABLES
    GOOS,          \* runtime.GOOS
    ProxyAll,      \* client.ProxyAll
    muWriter,      \* handler holding muConns exclusively, or NoHandler
    muReaders,     \* number of read locks held on muConns (the reporter's)
    conns,         \* map: outbound connection -> connMeta
    clientConns,   \* map: client connection -> connMeta
    method,        \* req.Method of each handler's request, "" before it
    pc,            \* position of each handler in ServeHTTP/intercept/pipeData
    gpc,           \* position of the goroutine pipeData starts
    wg,            \* the counter of pipeData's sync.WaitGroup
    clientClosed,  \* clientConn.Close() has returned
    outClosed,     \* connOut.Close() has returned
    clientWrites,  \* writes issued on the hijacked client connection, in order
    sinkWrites,    \* writes issued on the http.ResponseWriter, in order
    detourCalls,   \* calls of detour.Dialer by each handler
    dialedBy,      \* which dial function each handler called
    regs,          \* per handler: registrations and deregistrations performed
    hijacked,      \* outcome of line 89 for each handler
    dialErr,       \* outcome of the dial for each handler
    closedBy,      \* who closed the client connection first
    relayed,       \* the goroutine has copied client bytes to connOut
    reqHost,       \* req.Host of the request hostIncludingPort is given
    addr,          \* what hostIncludingPort returned, NoAddr before
    qosHeader,     \* the X-Flashlight-QOS header of the request targetQOS reads
    MinQOS,        \* client.MinQOS
    qos            \* what targetQOS returned, NoQOS before the call

vars == << GOOS, ProxyAll, muWriter, muReaders, conns, clientConns, method, pc,
           gpc, wg, clientClosed, outClosed, clientWrites, sinkWrites,
           detourCalls, dialedBy, regs, hijacked, dialErr, closedBy, relayed,
           reqHost, addr, qosHeader, MinQOS, qos >>

\* The variables of the two pure functions, hostIncludingPort and targetQOS.
pureVars == << reqHost, addr, qosHeader, MinQOS, qos >>

\* connMeta without establishedAt (wall-clock time is only logged).
connMeta(hostAddr, peerAddr) == [hostAddr |-> hostAddr, peerAddr |-> peerAddr]

\* m[k] = v on a Go map.
MapPut(m, k, v) == [c \in (DOMAIN m) \cup {k} |-> IF c = k THEN v ELSE m[c]]

\* delete(m, k) on a Go map: a no-op when k is absent.
MapDelete(m, k) == [c \in (DOMAIN m) \ {k} |-> m[c]]

\* One Write call on a connection or response writer and whether it succeeded.
WriteOf(data, ok) == [data |-> data, ok |-> ok]

\* respondOK: one write of the 200 response.
respondOK(ok) == << WriteOf("200", ok) >>

\* respondBadGateway: the 502 response, then the message if that write
\* succeeded.
respondBadGateway(ok1, ok2) ==
    IF ok1 THEN << WriteOf("502", TRUE), WriteOf("msg", ok2) >>
           ELSE << WriteOf("502", FALSE) >>

\* The condition of line 110 without the ProxyAll disjunct.
forceDirect_AndroidOnly == GOOS = "android"

\* The condition of line 110.
forceDirect == GOOS = "android" \/ ProxyAll

NoRegs == [clientReg |-> 0, clientDel |-> 0, outReg |-> 0, outDel |-> 0]

\* No call of hostIncludingPort yet.
NoAddr == [set |-> FALSE, val |-> << >>]

\* No call of targetQOS yet.
NoQOS == [set |-> FALSE, val |-> 0]

\* The value a call returned.
Returned(v) == [set |-> TRUE, val |-> v]

\* A request without the X-Flashlight-QOS header.
NoHeader == [present |-> FALSE, value |-> << >>]

\* The package's state after its variable declarations, before any request.
InitTunnel ==
    /\ GOOS \in Platforms
    /\ ProxyAll \in BOOLEAN
    /\ muWriter = NoHandler
    /\ muReaders = 0
    /\ conns = << >>
    /\ clientConns = << >>
    /\ method = [h \in Handlers |-> ""]
    /\ pc = [h \in Handlers |-> "idle"]
    /\ gpc = [h \in Handlers |-> "none"]
    /\ wg = [h \in Handlers |-> 0]
    /\ clientClosed = [h \in Handlers |-> FALSE]
    /\ outClosed = [h \in Handlers |-> FALSE]
    /\ clientWrites = [h \in Handlers |-> << >>]
    /\ sinkWrites = [h \in Handlers |-> << >>]
    /\ detourCalls = [h \in Handlers |-> 0]
    /\ dialedBy = [h \in Handlers |-> "none"]
    /\ regs = [h \in Handlers |-> NoRegs]
    /\ hijacked = [h \in Handlers |-> "none"]
    /\ dialErr = [h \in Handlers |-> "none"]
    /\ closedBy = [h \in Handlers |-> "none"]
    /\ relayed = [h \in Handlers |-> FALSE]

Init ==
    /\ InitTunnel
    /\ reqHost = << >>
    /\ addr = NoAddr
    /\ qosHeader = NoHeader
    /\ MinQOS = 0
    /\ qos = NoQOS

\* muConns.Lock() can return: no writer and no reader holds the lock.
CanLock == muWriter = NoHandler /\ muReaders = 0

\* ServeHTTP without the method test: every request is intercepted.
Route_Always(m) == "intercept"

\* The branch ServeHTTP takes for a request method (line 65).
Route(m) == IF m = httpConnectMethod THEN "intercept" ELSE "reverseProxy"

\* Where intercept goes from its entry (lines 81-83).
InterceptEntry(m) == IF m # httpConnectMethod THEN "panic82" ELSE "hijack89"

\* Client.ServeHTTP, up to the hijack of intercept.
ServeHTTP(h) ==
    /\ pc[h] = "idle"
    /\ \E m \in Methods :
          /\ method' = [method EXCEPT ![h] = m]
          /\ pc' = [pc EXCEPT ![h] = IF Route(m) = "intercept"
                                       THEN InterceptEntry(m)
                                       ELSE "proxied"]
    /\ UNCHANGED << pureVars, relayed, GOOS, ProxyAll, hijacked, dialErr,
                    muWriter, muReaders, conns, clientConns, gpc, wg,
                    clientClosed, outClosed, clientWrites, sinkWrites,
                    detourCalls, dialedBy, regs, closedBy >>

\* Line 89: the response writer is no http.Hijacker, the type assertion panics.
HijackUnsupported(h) ==
    /\ pc[h] = "hijack89"
    /\ hijacked' = [hijacked EXCEPT ![h] = "unsupported"]
    /\ pc' = [pc EXCEPT ![h] = "panic89"]
    /\ UNCHANGED << pureVars, relayed, GOOS, ProxyAll, dialErr, muWriter,
                    muReaders, conns, clientConns, method, gpc, wg,
                    clientClosed, outClosed, clientWrites, sinkWrites,
                    detourCalls, dialedBy, regs, closedBy >>

\* Lines 89-92: Hijack returns an error.
HijackError(h) ==
    /\ pc[h] = "hijack89"
    /\ hijacked' = [hijacked EXCEPT ![h] = "error"]
    /\ \E ok1, ok2 \in BOOLEAN :
          sinkWrites' = [sinkWrites EXCEPT ![h] = respondBadGateway(ok1, ok2)]
    /\ pc' = [pc EXCEPT ![h] = "returned"]
    /\ UNCHANGED << pureVars, relayed, GOOS, ProxyAll, dialErr, muWriter,
                    muReaders, conns, clientConns, method, gpc, wg,
                    clientClosed, outClosed, clientWrites, detourCalls,
                    dialedBy, regs, closedBy >>

\* Line 89: Hijack hands over the client connection.
HijackOK(h) ==
    /\ pc[h] = "hijack89"
    /\ hijacked' = [hijacked EXCEPT ![h] = "ok"]
    /\ pc' = [pc EXCEPT ![h] = "lock93"]
    /\ UNCHANGED << pureVars, relayed, GOOS, ProxyAll, dialErr, muWriter,
                    muReaders, conns, clientConns, method, gpc, wg,
                    clientClosed, outClosed, clientWrites, sinkWrites,
                    detourCalls, dialedBy, regs, closedBy >>

\* Line 93: muConns.Lock().
Lock93(h) ==
    /\ pc[h] = "lock93"
    /\ CanLock
    /\ muWriter' = h
    /\ pc' = [pc EXCEPT ![h] = "reg94"]
    /\ UNCHANGED << pureVars, relayed, GOOS, ProxyAll, hijacked, dialErr,
                    muReaders, conns, clientConns, method, gpc, wg,
                    clientClosed, outClosed, clientWrites, sinkWrites,
                    detourCalls, dialedBy, regs, closedBy >>

\* Lines 93-101 without the map assignment: the client connection is never
\* entered in clientConns.
Register94_NoRegister(h) ==
    /\ pc[h] = "reg94"
    /\ muWriter' = NoHandler
    /\ pc' = [pc EXCEPT ![h] = "dial"]
    /\ UNCHANGED << pureVars, relayed, GOOS, ProxyAll, hijacked, dialErr,
                    muReaders, conns, clientConns, method, gpc, wg,
                    clientClosed, outClosed, clientWrites, sinkWrites,
                    detourCalls, dialedBy, regs, closedBy >>

\* Lines 94-101: register the client connection, unlock, schedule the cleanup.
Register94(h) ==
    /\ pc[h] = "reg94"
    /\ clientConns' = MapPut(clientConns, h, connMeta("host", "peer"))
    /\ regs' = [regs EXCEPT ![h].clientReg = @ + 1]
    /\ muWriter' = NoHandler
    /\ pc' = [pc EXCEPT ![h] = "dial"]
    /\ UNCHANGED << pureVars, relayed, GOOS, ProxyAll, hijacked, dialErr,
                    muReaders, conns, method, gpc, wg, clientClosed,
                    outClosed, clientWrites, sinkWrites, detourCalls,
                    dialedBy, closedBy >>

\* Line 94: clientConn.RemoteAddr().String() panics (RemoteAddr of the
\* hijacked net.Conn returns nil or panics itself, the failure lines 121-129
\* recover from for connOut) while muConns is held.  No deferred function is
\* scheduled yet, so nothing unlocks; net/http recovers the panic and the
\* process lives on.
RemoteAddrPanic94(h) ==
    /\ pc[h] = "reg94"
    /\ pc' = [pc EXCEPT ![h] = "panic94"]
    /\ UNCHANGED << pureVars, relayed, GOOS, ProxyAll, hijacked, dialErr,
                    muWriter, muReaders, conns, clientConns, method, gpc, wg,
                    clientClosed, outClosed, clientWrites, sinkWrites,
                    detourCalls, dialedBy, regs, closedBy >>

\* Lines 110-114: the dial function intercept calls.
DialStrategy == IF forceDirect THEN "base" ELSE "detour"

\* The dial-failure path with the client cleanup written after the dial
\* instead of deferred: the early return skips it.
DialFail_NoCleanup(h) ==
    /\ pc[h] = "dial"
    /\ dialErr' = [dialErr EXCEPT ![h] = "error"]
    /\ dialedBy' = [dialedBy EXCEPT ![h] = DialStrategy]
    /\ detourCalls' = [detourCalls EXCEPT ![h] =
                          IF DialStrategy = "detour" THEN @ + 1 ELSE @]
    /\ \E ok1, ok2 \in BOOLEAN :
          clientWrites' = [clientWrites EXCEPT ![h] =
                              @ \o respondBadGateway(ok1, ok2)]
    /\ pc' = [pc EXCEPT ![h] = "returned"]
    /\ UNCHANGED << pureVars, relayed, GOOS, ProxyAll, muWriter, muReaders,
                    conns, clientConns, method, gpc, wg, clientClosed,
                    outClosed, sinkWrites, regs, hijacked, closedBy >>

\* The dial-failure path without the return of line 118: intercept goes on
\* to register connOut and to pipeData.
DialFail_FallThrough(h) ==
    /\ pc[h] = "dial"
    /\ dialErr' = [dialErr EXCEPT ![h] = "error"]
    /\ dialedBy' = [dialedBy EXCEPT ![h] = DialStrategy]
    /\ detourCalls' = [detourCalls EXCEPT ![h] =
                          IF DialStrategy = "detour" THEN @ + 1 ELSE @]
    /\ \E ok1, ok2 \in BOOLEAN :
          clientWrites' = [clientWrites EXCEPT ![h] =
                              @ \o respondBadGateway(ok1, ok2)]
    /\ pc' = [pc EXCEPT ![h] = "lock130"]
    /\ UNCHANGED << pureVars, relayed, GOOS, ProxyAll, muWriter, muReaders,
                    conns, clientConns, method, gpc, wg, clientClosed,
                    outClosed, sinkWrites, regs, hijacked, closedBy >>

\* Lines 103-119: the dial fails; 502 on the hijacked connection, return.
DialFail(h) ==
    /\ pc[h] = "dial"
    /\ dialErr' = [dialErr EXCEPT ![h] = "error"]
    /\ dialedBy' = [dialedBy EXCEPT ![h] = DialStrategy]
    /\ detourCalls' = [detourCalls EXCEPT ![h] =
                          IF DialStrategy = "detour" THEN @ + 1 ELSE @]
    /\ \E ok1, ok2 \in BOOLEAN :
          clientWrites' = [clientWrites EXCEPT ![h] =
                              @ \o respondBadGateway(ok1, ok2)]
    /\ pc' = [pc EXCEPT ![h] = "defer97"]
    /\ UNCHANGED << pureVars, relayed, GOOS, ProxyAll, hijacked, muWriter,
                    muReaders, conns, clientConns, method, gpc, wg,
                    clientClosed, outClosed, sinkWrites, regs, closedBy >>

\* Lines 103-116: the dial returns a connection.
DialOK(h) ==
    /\ pc[h] = "dial"
    /\ dialErr' = [dialErr EXCEPT ![h] = "nil"]
    /\ dialedBy' = [dialedBy EXCEPT ![h] = DialStrategy]
    /\ detourCalls' = [detourCalls EXCEPT ![h] =
                          IF DialStrategy = "detour" THEN @ + 1 ELSE @]
    /\ pc' = [pc EXCEPT ![h] = "lock130"]
    /\ UNCHANGED << pureVars, relayed, GOOS, ProxyAll, hijacked, muWriter,
                    muReaders, conns, clientConns, method, gpc, wg,
                    clientClosed, outClosed, clientWrites, sinkWrites, regs,
                    closedBy >>

\* Line 130 missing: intercept writes conns without taking muConns.
Lock130_NoLock(h) ==
    /\ pc[h] = "lock130"
    /\ pc' = [pc EXCEPT ![h] = "reg131"]
    /\ UNCHANGED << pureVars, relayed, GOOS, ProxyAll, hijacked, dialErr,
                    muWriter, muReaders, conns, clientConns, method, gpc, wg,
                    clientClosed, outClosed, clientWrites, sinkWrites,
                    detourCalls, dialedBy, regs, closedBy >>

\* Line 130: muConns.Lock().
Lock130(h) ==
    /\ pc[h] = "lock130"
    /\ CanLock
    /\ muWriter' = h
    /\ pc' = [pc EXCEPT ![h] = "reg131"]
    /\ UNCHANGED << pureVars, relayed, GOOS, ProxyAll, hijacked, dialErr,
                    muReaders, conns, clientConns, method, gpc, wg,
                    clientClosed, outClosed, clientWrites, sinkWrites,
                    detourCalls, dialedBy, regs, closedBy >>

\* Lines 121-129: connOut.RemoteAddr().String(), "" when it panics.
ServerAddrs == {"", "peer"}

\* Lines 121-138 without the recover of lines 123-127: a panic of
\* connOut.RemoteAddr() ends the attempt, connOut is not registered.
Register131_NoRecover(h) ==
    /\ pc[h] = "reg131"
    /\ \E serverAddr \in ServerAddrs :
          IF serverAddr = ""
              THEN /\ pc' = [pc EXCEPT ![h] = "panic128"]
                   /\ UNCHANGED << conns, regs >>
              ELSE /\ conns' = MapPut(conns, h, connMeta("addr", serverAddr))
                   /\ regs' = [regs EXCEPT ![h].outReg = @ + 1]
                   /\ pc' = [pc EXCEPT ![h] = "pipe163"]
    /\ muWriter' = NoHandler
    /\ UNCHANGED << pureVars, relayed, GOOS, ProxyAll, hijacked, dialErr,
                    muReaders, clientConns, method, gpc, wg, clientClosed,
                    outClosed, clientWrites, sinkWrites, detourCalls,
                    dialedBy, closedBy >>

\* Lines 131-138: register the outbound connection under the address the
\* recovered call of lines 121-129 gave, unlock, schedule the cleanup.
Register131(h) ==
    /\ pc[h] = "reg131"
    /\ \E serverAddr \in ServerAddrs :
          conns' = MapPut(conns, h, connMeta("addr", serverAddr))
    /\ regs' = [regs EXCEPT ![h].outReg = @ + 1]
    /\ muWriter' = NoHandler
    /\ pc' = [pc EXCEPT ![h] = "pipe163"]
    /\ UNCHANGED << pureVars, relayed, GOOS, ProxyAll, hijacked, dialErr,
                    muReaders, clientConns, method, gpc, wg, clientClosed,
                    outClosed, clientWrites, sinkWrites, detourCalls,
                    dialedBy, closedBy >>

\* pipeData with the client-to-outbound copy moved behind the response: no
\* goroutine is running while respondOK writes.
PipeStart_NoGoroutine(h) ==
    /\ pc[h] = "pipe163"
    /\ wg' = [wg EXCEPT ![h] = @ + 1]
    /\ pc' = [pc EXCEPT ![h] = "respond177"]
    /\ UNCHANGED << pureVars, relayed, GOOS, ProxyAll, hijacked, dialErr,
                    muWriter, muReaders, conns, clientConns, method, gpc,
                    clientClosed, outClosed, clientWrites, sinkWrites,
                    detourCalls, dialedBy, regs, closedBy >>

\* Lines 163-174: wg.Add(1) and the start of the client-to-outbound goroutine.
PipeStart(h) ==
    /\ pc[h] = "pipe163"
    /\ wg' = [wg EXCEPT ![h] = @ + 1]
    /\ gpc' = [gpc EXCEPT ![h] = "copy167"]
    /\ pc' = [pc EXCEPT ![h] = "respond177"]
    /\ UNCHANGED << pureVars, relayed, GOOS, ProxyAll, hijacked, dialErr,
                    muWriter, muReaders, conns, clientConns, method,
                    clientClosed, outClosed, clientWrites, sinkWrites,
                    detourCalls, dialedBy, regs, closedBy >>

\* Lines 177-182: respondOK returns, wg.Done(), return on error.
RespondOK(h) ==
    /\ pc[h] = "respond177"
    /\ \E ok \in BOOLEAN :
          /\ clientWrites' = [clientWrites EXCEPT ![h] = @ \o respondOK(ok)]
          /\ pc' = [pc EXCEPT ![h] = IF ok THEN "copy185" ELSE "defer134"]
    /\ wg' = [wg EXCEPT ![h] = @ - 1]
    /\ UNCHANGED << pureVars, relayed, GOOS, ProxyAll, hijacked, dialErr,
                    muWriter, muReaders, conns, clientConns, method, gpc,
                    clientClosed, outClosed, sinkWrites, detourCalls,
                    dialedBy, regs, closedBy >>

\* Line 185: the read from connOut ends (the upstream closes or errors).
CopyOutEndsRead(h) ==
    /\ pc[h] = "copy185"
    /\ pc' = [pc EXCEPT ![h] = "defer134"]
    /\ UNCHANGED << pureVars, relayed, GOOS, ProxyAll, hijacked, dialErr,
                    muWriter, muReaders, conns, clientConns, method, gpc, wg,
                    clientClosed, outClosed, clientWrites, sinkWrites,
                    detourCalls, dialedBy, regs, closedBy >>

\* Line 185: the upstream sends data and the write to the closed clientConn
\* fails.
CopyOutEndsWrite(h) ==
    /\ pc[h] = "copy185"
    /\ clientClosed[h]
    /\ pc' = [pc EXCEPT ![h] = "defer134"]
    /\ UNCHANGED << pureVars, relayed, GOOS, ProxyAll, hijacked, dialErr,
                    muWriter, muReaders, conns, clientConns, method, gpc, wg,
                    clientClosed, outClosed, clientWrites, sinkWrites,
                    detourCalls, dialedBy, regs, closedBy >>

\* Line 134: the deferred connOut.Close().
DeferCloseOut(h) ==
    /\ pc[h] = "defer134"
    /\ outClosed' = [outClosed EXCEPT ![h] = TRUE]
    /\ pc' = [pc EXCEPT ![h] = "lock135"]
    /\ UNCHANGED << pureVars, relayed, GOOS, ProxyAll, hijacked, dialErr,
                    muWriter, muReaders, conns, clientConns, method, gpc, wg,
                    clientClosed, clientWrites, sinkWrites, detourCalls,
                    dialedBy, regs, closedBy >>

\* Line 135: muConns.Lock().
Lock135(h) ==
    /\ pc[h] = "lock135"
    /\ CanLock
    /\ muWriter' = h
    /\ pc' = [pc EXCEPT ![h] = "del136"]
    /\ UNCHANGED << pureVars, relayed, GOOS, ProxyAll, hijacked, dialErr,
                    muReaders, conns, clientConns, method, gpc, wg,
                    clientClosed, outClosed, clientWrites, sinkWrites,
                    detourCalls, dialedBy, regs, closedBy >>

\* The deferred cleanup deleting connOut from the wrong map, clientConns,
\* where it is no key: conns keeps the entry.
Delete136_WrongMap(h) ==
    /\ pc[h] = "del136"
    /\ muWriter' = NoHandler
    /\ pc' = [pc EXCEPT ![h] = "defer97"]
    /\ UNCHANGED << pureVars, relayed, GOOS, ProxyAll, hijacked, dialErr,
                    muReaders, conns, clientConns, method, gpc, wg,
                    clientClosed, outClosed, clientWrites, sinkWrites,
                    detourCalls, dialedBy, regs, closedBy >>

\* Lines 136-137: delete(conns, connOut), unlock.
Delete136(h) ==
    /\ pc[h] = "del136"
    /\ conns' = MapDelete(conns, h)
    /\ regs' = [regs EXCEPT ![h].outDel = @ + 1]
    /\ muWriter' = NoHandler
    /\ pc' = [pc EXCEPT ![h] = "defer97"]
    /\ UNCHANGED << pureVars, relayed, GOOS, ProxyAll, hijacked, dialErr,
                    muReaders, clientConns, method, gpc, wg, clientClosed,
                    outClosed, clientWrites, sinkWrites, detourCalls,
                    dialedBy, closedBy >>

\* Line 97: the deferred clientConn.Close().
DeferCloseClient(h) ==
    /\ pc[h] = "defer97"
    /\ clientClosed' = [clientClosed EXCEPT ![h] = TRUE]
    /\ closedBy' = [closedBy EXCEPT ![h] = IF @ = "none" THEN "defer" ELSE @]
    /\ pc' = [pc EXCEPT ![h] = "lock98"]
    /\ UNCHANGED << pureVars, relayed, GOOS, ProxyAll, hijacked, dialErr,
                    muWriter, muReaders, conns, clientConns, method, gpc, wg,
                    outClosed, clientWrites, sinkWrites, detourCalls,
                    dialedBy, regs >>

\* Line 98: muConns.Lock().
Lock98(h) ==
    /\ pc[h] = "lock98"
    /\ CanLock
    /\ muWriter' = h
    /\ pc' = [pc EXCEPT ![h] = "del99"]
    /\ UNCHANGED << pureVars, relayed, GOOS, ProxyAll, hijacked, dialErr,
                    muReaders, conns, clientConns, method, gpc, wg,
                    clientClosed, outClosed, clientWrites, sinkWrites,
                    detourCalls, dialedBy, regs, closedBy >>

\* Lines 99-100: delete(clientConns, clientConn), unlock; intercept returns.
Delete99(h) ==
    /\ pc[h] = "del99"
    /\ clientConns' = MapDelete(clientConns, h)
    /\ regs' = [regs EXCEPT ![h].clientDel = @ + 1]
    /\ muWriter' = NoHandler
    /\ pc' = [pc EXCEPT ![h] = "returned"]
    /\ UNCHANGED << pureVars, relayed, GOOS, ProxyAll, hijacked, dialErr,
                    muReaders, conns, method, gpc, wg, clientClosed,
                    outClosed, clientWrites, sinkWrites, detourCalls,
                    dialedBy, closedBy >>

\* Line 167: the client sends bytes and io.Copy writes them to connOut.
CopyInRelay(h) ==
    /\ gpc[h] = "copy167"
    /\ ~clientClosed[h]
    /\ ~outClosed[h]
    /\ relayed' = [relayed EXCEPT ![h] = TRUE]
    /\ UNCHANGED << pureVars, GOOS, ProxyAll, hijacked, dialErr, muWriter,
                    muReaders, conns, clientConns, method, pc, gpc, wg,
                    clientClosed, outClosed, clientWrites, sinkWrites,
                    detourCalls, dialedBy, regs, closedBy >>

\* Line 167: the read from clientConn ends because the client closed or the
\* network failed.
CopyInEndsPeer(h) ==
    /\ gpc[h] = "copy167"
    /\ gpc' = [gpc EXCEPT ![h] = "wait172"]
    /\ UNCHANGED << pureVars, relayed, GOOS, ProxyAll, hijacked, dialErr,
                    muWriter, muReaders, conns, clientConns, method, pc, wg,
                    clientClosed, outClosed, clientWrites, sinkWrites,
                    detourCalls, dialedBy, regs, closedBy >>

\* Line 167: the read from clientConn fails because intercept closed it.
CopyInEndsClosed(h) ==
    /\ gpc[h] = "copy167"
    /\ clientClosed[h]
    /\ gpc' = [gpc EXCEPT ![h] = "wait172"]
    /\ UNCHANGED << pureVars, relayed, GOOS, ProxyAll, hijacked, dialErr,
                    muWriter, muReaders, conns, clientConns, method, pc, wg,
                    clientClosed, outClosed, clientWrites, sinkWrites,
                    detourCalls, dialedBy, regs, closedBy >>

\* Line 167: the client sends data and the write to the closed connOut fails.
CopyInEndsWrite(h) ==
    /\ gpc[h] = "copy167"
    /\ outClosed[h]
    /\ gpc' = [gpc EXCEPT ![h] = "wait172"]
    /\ UNCHANGED << pureVars, relayed, GOOS, ProxyAll, hijacked, dialErr,
                    muWriter, muReaders, conns, clientConns, method, pc, wg,
                    clientClosed, outClosed, clientWrites, sinkWrites,
                    detourCalls, dialedBy, regs, closedBy >>

\* The goroutine without wg.Wait(): it closes as soon as its copy ends.
WaitDone_NoWait(h) == TRUE

\* Line 172: wg.Wait() can return.
WaitDone(h) == wg[h] = 0

\* Lines 172-173: wg.Wait() returns, clientConn.Close(); the goroutine ends.
GoClose(h) ==
    /\ gpc[h] = "wait172"
    /\ WaitDone(h)
    /\ clientClosed' = [clientClosed EXCEPT ![h] = TRUE]
    /\ closedBy' = [closedBy EXCEPT ![h] = IF @ = "none" THEN "copytask" ELSE @]
    /\ gpc' = [gpc EXCEPT ![h] = "done"]
    /\ UNCHANGED << pureVars, relayed, GOOS, ProxyAll, hijacked, dialErr,
                    muWriter, muReaders, conns, clientConns, method, pc, wg,
                    outClosed, clientWrites, sinkWrites, detourCalls,
                    dialedBy, regs >>

\* Lines 34-35: a tick arrives and the reporter takes the read lock.
ReporterRLock ==
    /\ muWriter = NoHandler
    /\ muReaders = 0
    /\ muReaders' = muReaders + 1
    /\ UNCHANGED << pureVars, relayed, GOOS, ProxyAll, hijacked, dialErr,
                    muWriter, conns, clientConns, method, pc, gpc, wg,
                    clientClosed, outClosed, clientWrites, sinkWrites,
                    detourCalls, dialedBy, regs, closedBy >>

\* Lines 36-56: the reporter logs both maps and releases the read lock.
ReporterRUnlock ==
    /\ muReaders > 0
    /\ muReaders' = muReaders - 1
    /\ UNCHANGED << pureVars, relayed, GOOS, ProxyAll, hijacked, dialErr,
                    muWriter, conns, clientConns, method, pc, gpc, wg,
                    clientClosed, outClosed, clientWrites, sinkWrites,
                    detourCalls, dialedBy, regs, closedBy >>

HandlerStep(h) ==
    \/ ServeHTTP(h)
    \/ HijackUnsupported(h)
    \/ HijackError(h)
    \/ HijackOK(h)
    \/ Lock93(h)
    \/ Register94(h)
    \/ RemoteAddrPanic94(h)
    \/ DialFail(h)
    \/ DialOK(h)
    \/ Lock130(h)
    \/ Register131(h)
    \/ PipeStart(h)
    \/ RespondOK(h)
    \/ CopyOutEndsRead(h)
    \/ CopyOutEndsWrite(h)
    \/ DeferCloseOut(h)
    \/ Lock135(h)
    \/ Delete136(h)
    \/ DeferCloseClient(h)
    \/ Lock98(h)
    \/ Delete99(h)
    \/ CopyInRelay(h)
    \/ CopyInEndsPeer(h)
    \/ CopyInEndsClosed(h)
    \/ CopyInEndsWrite(h)
    \/ GoClose(h)

Next ==
    \/ \E h \in Handlers : HandlerStep(h)
    \/ ReporterRLock
    \/ ReporterRUnlock

Spec == Init /\ [][Next]_vars


\* Steps of a handler that need nothing but the scheduler to happen.
MainProgress(h) ==
    \/ Register94(h)
    \/ RemoteAddrPanic94(h)
    \/ Register131(h)
    \/ PipeStart(h)
    \/ RespondOK(h)
    \/ DeferCloseOut(h)
    \/ Delete136(h)
    \/ DeferCloseClient(h)
    \/ Delete99(h)

\* Steps of the copy goroutine that need nothing but the scheduler: a read of
\* a connection closed locally fails at once, and wg.Wait() returns when the
\* counter is zero.
GoProgress(h) == CopyInEndsClosed(h) \/ GoClose(h)

\* muConns.Lock() of any of the four critical sections.
LockStep(h) == Lock93(h) \/ Lock130(h) \/ Lock135(h) \/ Lock98(h)

\* Goroutines are scheduled fairly; sync.RWMutex does not starve a writer that
\* finds the lock free again and again; the reporter releases its read lock.
\* Nothing is assumed of the peers: requests, hijacks, dials, the end of a
\* read from an open connection and the reporter's ticks may never happen.
Fairness ==
    /\ \A h \in Handlers : WF_vars(MainProgress(h))
    /\ \A h \in Handlers : WF_vars(GoProgress(h))
    /\ \A h \in Handlers : SF_vars(LockStep(h))
    /\ WF_vars(ReporterRUnlock)

FairSpec == Spec /\ Fairness

----------------------------------------------------------------------------
\* hostIncludingPort and targetQOS.  A Go string is the sequence of its
\* characters.

\* Longest req.Host hostIncludingPort is given.
MaxHostLen == 4

\* Longest X-Flashlight-QOS value targetQOS is given.
MaxHeaderLen == 3

\* The default port intercept passes to hostIncludingPort (line 103).
DefaultPort == 443

\* Characters of a req.Host: a name, a digit, and the separators
\* net.SplitHostPort looks for.
HostChars == {"h", "8", ":", "[", "]"}

\* Characters of a header value: digits, signs, and a letter.
HeaderChars == {"0", "7", "-", "+", "a"}

\* Values of client.MinQOS.
MinQOSValues == {0, 3}

\* The strings over chars of length at most n.
StringsUpTo(chars, n) == UNION {[1..k -> chars] : k \in 0..n}

Digits == << "0", "1", "2", "3", "4", "5", "6", "7", "8", "9" >>

\* The value of a decimal digit character, -1 for any other character.
DigitValue(c) ==
    IF \E d \in 1..10 : Digits[d] = c
        THEN (CHOOSE d \in 1..10 : Digits[d] = c) - 1
        ELSE -1

\* strconv.Itoa for n >= 0.
RECURSIVE Itoa(_)
Itoa(n) == IF n < 10 THEN << Digits[n + 1] >>
                     ELSE Itoa(n \div 10) \o << Digits[(n % 10) + 1] >>

\* strings.IndexByte, counted from 1: 0 when c is not in str.
IndexByte(str, c) ==
    IF \E i \in 1..Len(str) : str[i] = c
        THEN CHOOSE i \in 1..Len(str) :
                 str[i] = c /\ \A j \in 1..(i - 1) : str[j] # c
        ELSE 0

\* The index of the last c in str, counted from 1: 0 when there is none.
LastIndex(str, c) ==
    IF \E i \in 1..Len(str) : str[i] = c
        THEN CHOOSE i \in 1..Len(str) :
                 str[i] = c /\ \A j \in (i + 1)..Len(str) : str[j] # c
        ELSE 0

\* str[from:] of Go with from counted from 1.
Suffix(str, from) == SubSeq(str, from, Len(str))

AddrError(why) == [host |-> << >>, port |-> << >>, err |-> why]

\* net.SplitHostPort, called at line 217.
SplitHostPort(hostport) ==
    LET i == LastIndex(hostport, ":")
        end == IndexByte(hostport, "]")
        bracketed == hostport[1] = "["
        j == IF bracketed THEN 2 ELSE 1
        k == IF bracketed THEN end + 1 ELSE 1
    IN  IF i = 0 THEN AddrError("missing port in address")
        ELSE IF bracketed /\ end = 0
            THEN AddrError("missing ']' in address")
        ELSE IF bracketed /\ end = Len(hostport)
            THEN AddrError("missing port in address")
        ELSE IF bracketed /\ end + 1 # i
            THEN IF hostport[end + 1] = ":"
                     THEN AddrError("too many colons in address")
                     ELSE AddrError("missing port in address")
        ELSE IF ~bracketed /\ IndexByte(SubSeq(hostport, 1, i - 1), ":") # 0
            THEN AddrError("too many colons in address")
        ELSE IF IndexByte(Suffix(hostport, j), "[") # 0
            THEN AddrError("unexpected '[' in address")
        ELSE IF IndexByte(Suffix(hostport, k), "]") # 0
            THEN AddrError("unexpected ']' in address")
        ELSE [host |-> IF bracketed THEN SubSeq(hostport, 2, end - 1)
                                    ELSE SubSeq(hostport, 1, i - 1),
              port |-> Suffix(hostport, i + 1),
              err |-> "nil"]

\* hostIncludingPort with the default port treated as a port of its own
\* whenever the split fails, never when the port is merely empty.
hostIncludingPort_ErrOnly(host, defaultPort) ==
    IF SplitHostPort(host).err # "nil"
        THEN host \o << ":" >> \o Itoa(defaultPort)
        ELSE host

\* hostIncludingPort (lines 216-223).
hostIncludingPort(host, defaultPort) ==
    LET r == SplitHostPort(host)
    IN  IF r.port = << >> \/ r.err # "nil"
            THEN host \o << ":" >> \o Itoa(defaultPort)
            ELSE host

\* strconv.Atoi, called at line 150: an optional sign and at least one
\* decimal digit, nothing else.
Atoi(str) ==
    LET signed == Len(str) > 0 /\ str[1] \in {"+", "-"}
        digits == IF signed THEN Suffix(str, 2) ELSE str
        Acc[n \in 0..Len(digits)] ==
            IF n = 0 THEN 0 ELSE Acc[n - 1] * 10 + DigitValue(digits[n])
    IN  IF digits = << >> \/ \E n \in 1..Len(digits) : DigitValue(digits[n]) < 0
            THEN [val |-> 0, err |-> "invalid syntax"]
            ELSE [val |-> IF signed /\ str[1] = "-" THEN 0 - Acc[Len(digits)]
                                                   ELSE Acc[Len(digits)],
                  err |-> "nil"]

\* req.Header.Get (line 147): "" when the header is absent.
HeaderGet(header) == IF header.present THEN header.value ELSE << >>

\* targetQOS with a failed parse answered by Atoi's zero value.
targetQOS_NoErrCheck(header, minQOS) ==
    LET requestedQOS == HeaderGet(header)
    IN  IF requestedQOS # << >> THEN Atoi(requestedQOS).val ELSE minQOS

\* Client.targetQOS (lines 146-157).
targetQOS(header, minQOS) ==
    LET requestedQOS == HeaderGet(header)
    IN  IF requestedQOS # << >> /\ Atoi(requestedQOS).err = "nil"
            THEN Atoi(requestedQOS).val
            ELSE minQOS

\* The tunnel's variables, which neither function reads or writes.
tunnelVars == << GOOS, ProxyAll, muWriter, muReaders, conns, clientConns,
                 method, pc, gpc, wg, clientClosed, outClosed, clientWrites,
                 sinkWrites, detourCalls, dialedBy, regs, hijacked, dialErr,
                 closedBy, relayed >>

\* A request with any host, before line 103.
InitHost ==
    /\ InitTunnel
    /\ reqHost \in StringsUpTo(HostChars, MaxHostLen)
    /\ addr = NoAddr
    /\ qosHeader = NoHeader
    /\ MinQOS = 0
    /\ qos = NoQOS

\* Line 103: addr := hostIncludingPort(req, 443).
CallHostIncludingPort ==
    /\ addr = NoAddr
    /\ addr' = Returned(hostIncludingPort(reqHost, DefaultPort))
    /\ UNCHANGED << tunnelVars, reqHost, qosHeader, MinQOS, qos >>

SpecHost == InitHost /\ [][CallHostIncludingPort]_vars

\* A request with or without the header, any value, before line 106.
InitQOS ==
    /\ InitTunnel
    /\ reqHost = << >>
    /\ addr = NoAddr
    /\ qosHeader \in
          {NoHeader} \cup
          {[present |-> TRUE, value |-> v] :
              v \in StringsUpTo(HeaderChars, MaxHeaderLen)}
    /\ MinQOS \in MinQOSValues
    /\ qos = NoQOS

\* Line 106: client.targetQOS(req).
CallTargetQOS ==
    /\ qos = NoQOS
    /\ qos' = Returned(targetQOS(qosHeader, MinQOS))
    /\ UNCHANGED << tunnelVars, reqHost, addr, qosHeader, MinQOS >>

SpecQOS == InitQOS /\ [][CallTargetQOS]_vars

----------------------------------------------------------------------------
\* Vocabulary of the properties.

\* respondOK has returned for handler h (its write is recorded on return).
RespondReturned(h) ==
    \E i \in 1..Len(clientWrites[h]) : clientWrites[h][i].data = "200"

\* The write of the success response failed.
RespondFailed(h) ==
    \E i \in 1..Len(clientWrites[h]) :
        clientWrites[h][i].data = "200" /\ ~clientWrites[h][i].ok

\* The success response was written: the tunnel is established.
Established(h) ==
    \E i \in 1..Len(clientWrites[h]) :
        clientWrites[h][i].data = "200" /\ clientWrites[h][i].ok

\* w is what a sink sees of a Bad Gateway answer: the 502 response, followed
\* by the error text when the sink accepted the response.
BadGatewayIssued(w) ==
    /\ Len(w) >= 1
    /\ w[1].data = "502"
    /\ w[1].ok => (Len(w) = 2 /\ w[2].data = "msg")

\* Number of HTTP responses (200 or 502) issued on handler h's client socket.
ResponsesIssued(h) ==
    Cardinality({i \in 1..Len(clientWrites[h]) :
                    clientWrites[h][i].data \in {"200", "502"}})

----------------------------------------------------------------------------
\* C1: the copy goroutine closes the client connection only after respondOK
\* has returned in the calling context: while the response write is pending
\* the client connection is open, also when the client-to-outbound copy has
\* already ended, and a close by the goroutine implies a returned respondOK.
C1_CloseAfterRespond ==
    \A h \in Handlers :
        /\ pc[h] = "respond177" => ~clientClosed[h]
        /\ gpc[h] = "done" => RespondReturned(h)
        /\ closedBy[h] = "copytask" => RespondReturned(h)

\* C1 witness: the copy has ended before the response write returned and the
\* goroutine is held in wg.Wait() with the client connection open.
C1_Witness ==
    \E h \in Handlers :
        /\ gpc[h] = "wait172"
        /\ pc[h] = "respond177"
        /\ wg[h] = 1
        /\ ~clientClosed[h]

\* C2 as stated: in every reachable state a connection whose Close has
\* returned is in no registry.
C2_ClosedNeverRegistered ==
    \A h \in Handlers :
        /\ clientClosed[h] => h \notin DOMAIN clientConns
        /\ outClosed[h] => h \notin DOMAIN conns

\* C2 amended: a connection leaves its registry only after its Close has
\* returned, and a closed connection is in no registry once the intercept
\* call that registered it has returned (until then it may still be listed).
C2_ClosedThenDeregistered ==
    \A h \in Handlers :
        /\ regs[h].clientDel > 0 => clientClosed[h]
        /\ regs[h].outDel > 0 => outClosed[h]
        /\ (pc[h] = "returned" /\ clientClosed[h]) =>
              h \notin DOMAIN clientConns
        /\ (pc[h] = "returned" /\ outClosed[h]) =>
              h \notin DOMAIN conns

\* C2 witness: a tunnel whose client connection the goroutine closed has
\* returned with both connections closed.
C2_Witness ==
    \E h \in Handlers :
        /\ pc[h] = "returned"
        /\ closedBy[h] = "copytask"
        /\ outClosed[h]
        /\ h \notin DOMAIN conns

\* C3: every registration is matched by exactly one deregistration before
\* intercept returns, on every exit path, so a returned intercept has left
\* neither of its connections in a registry.
C3_DeregisteredOnReturn ==
    \A h \in Handlers :
        /\ regs[h].clientReg <= 1 /\ regs[h].outReg <= 1
        /\ regs[h].clientDel <= regs[h].clientReg
        /\ regs[h].outDel <= regs[h].outReg
        /\ pc[h] = "returned" =>
              /\ regs[h].clientDel = regs[h].clientReg
              /\ regs[h].outDel = regs[h].outReg
              /\ h \notin DOMAIN clientConns
              /\ h \notin DOMAIN conns

\* C3 witness: the three exit paths behind a registration have been taken to
\* the end: a dial failure by one handler, a failed or a completed tunnel by
\* another.
C3_Witness ==
    \E h1, h2 \in Handlers :
        /\ pc[h1] = "returned" /\ dialErr[h1] = "error"
        /\ regs[h1].clientReg = 1 /\ regs[h1].clientDel = 1
        /\ pc[h2] = "returned" /\ RespondReturned(h2)
        /\ regs[h2] = [clientReg |-> 1, clientDel |-> 1,
                       outReg |-> 1, outDel |-> 1]

\* C4 as stated: after a failed dial the hijacked connection is sent the 502
\* response and the error text, the attempt never touches conns, and the
\* client connection is eventually closed and out of clientConns.
C4_DialFailure ==
    /\ [](\A h \in Handlers : dialErr[h] = "error" =>
              /\ BadGatewayIssued(clientWrites[h])
              /\ regs[h].outReg = 0 /\ regs[h].outDel = 0
              /\ h \notin DOMAIN conns)
    /\ \A h \in Handlers :
          (dialErr[h] = "error") ~>
              (clientClosed[h] /\ h \notin DOMAIN clientConns)

\* C5 as stated: a failed hijack, unsupported or erroring, ends with a Bad
\* Gateway answer on the response writer, a normal return and no registry
\* entry.
C5_HijackFailure ==
    \A h \in Handlers :
        hijacked[h] \in {"unsupported", "error"} =>
            /\ pc[h] = "returned"
            /\ BadGatewayIssued(sinkWrites[h])
            /\ regs[h] = NoRegs

\* C6 as stated: after a failed write of the success response the
\* outbound-to-client copy is never started, pipeData returns and both
\* connections are closed and deregistered by the deferred cleanups.
C6_RespondFailure ==
    /\ [](\A h \in Handlers : RespondFailed(h) => pc[h] # "copy185")
    /\ \A h \in Handlers :
          RespondFailed(h) ~>
              /\ pc[h] = "returned"
              /\ clientClosed[h] /\ outClosed[h]
              /\ h \notin DOMAIN clientConns /\ h \notin DOMAIN conns

\* C7: the 200 response is issued only after a successful dial, a client
\* connection is sent at most one response (200 or 502), and nothing is
\* written after a failed success response.
C7_OneResponse ==
    \A h \in Handlers :
        /\ RespondReturned(h) => dialErr[h] = "nil"
        /\ ResponsesIssued(h) <= 1
        /\ RespondFailed(h) => Len(clientWrites[h]) = 1
        /\ dialErr[h] = "none" => clientWrites[h] = << >>

\* C7 witness: the success response failed and the attempt has ended with
\* that single write on the client connection.
C7_Witness ==
    \E h \in Handlers :
        /\ pc[h] = "returned"
        /\ dialErr[h] = "nil"
        /\ clientWrites[h] = << WriteOf("200", FALSE) >>

\* C8 as stated: in an established tunnel, once either copy direction has
\* finished the client connection is eventually closed.
C8_ForceClose ==
    \A h \in Handlers :
        (/\ Established(h)
         /\ (gpc[h] \in {"wait172", "done"} \/ pc[h] # "copy185"))
            ~> clientClosed[h]

\* C9: the dial strategy is chosen once per attempt, before any byte flows:
\* on android or with ProxyAll the base dial function is called and
\* detour.Dialer never is; otherwise detour.Dialer is called exactly once
\* and the function it returns is the one called.
C9_DialStrategy ==
    \A h \in Handlers :
        /\ detourCalls[h] <= 1
        /\ dialedBy[h] = "none" =>
              /\ detourCalls[h] = 0
              /\ gpc[h] = "none"
              /\ clientWrites[h] = << >>
        /\ dialedBy[h] # "none" =>
              IF GOOS = "android" \/ ProxyAll
                  THEN dialedBy[h] = "base" /\ detourCalls[h] = 0
                  ELSE dialedBy[h] = "detour" /\ detourCalls[h] = 1

\* C9 witness: ProxyAll on a platform other than android, a handler has
\* dialed with the base function and its tunnel is copying.
C9_Witness ==
    \E h \in Handlers :
        /\ GOOS = "linux" /\ ProxyAll
        /\ dialedBy[h] = "base"
        /\ gpc[h] = "copy167"

\* C10: ServeHTTP hands a request to intercept exactly when its method is
\* CONNECT; any other request goes to the reverse proxy and touches no
\* registry, and the panic of line 82 is never reached.
C10_Dispatch ==
    \A h \in Handlers :
        pc[h] # "idle" =>
            /\ pc[h] = "proxied" <=> method[h] # "CONNECT"
            /\ pc[h] # "panic82"
            /\ pc[h] = "proxied" =>
                  /\ regs[h] = NoRegs
                  /\ hijacked[h] = "none"
                  /\ h \notin DOMAIN clientConns /\ h \notin DOMAIN conns

\* C10 witness: one request was delegated to the reverse proxy while a
\* CONNECT request is registered by intercept.
C10_Witness ==
    \E h1, h2 \in Handlers :
        /\ pc[h1] = "proxied" /\ method[h1] = "GET"
        /\ method[h2] = "CONNECT" /\ h2 \in DOMAIN clientConns

\* Number of occurrences of character c in str.
Count(str, c) == Cardinality({i \in 1..Len(str) : str[i] = c})

\* A host with no bracket and at most one colon: a name, name:port or name:
PlainHost(str) ==
    Count(str, "[") = 0 /\ Count(str, "]") = 0 /\ Count(str, ":") <= 1

\* a splits into a host and a port that is not empty.
WellFormedHostPort(a) ==
    SplitHostPort(a).err = "nil" /\ SplitHostPort(a).port # << >>

\* C11 as stated: hostIncludingPort returns a host that carries a port
\* unchanged and any other host with ":443" appended, and for a host of the
\* form name, name:port or name: (an empty port after a trailing colon) the
\* result is one well-formed host:port, with the request's own port when it
\* gave one.
C11_HostPort ==
    addr.set =>
        LET own == SplitHostPort(reqHost)
            carriesPort == own.err = "nil" /\ own.port # << >>
        IN  /\ carriesPort => addr.val = reqHost
            /\ ~carriesPort => addr.val = reqHost \o << ":", "4", "4", "3" >>
            /\ PlainHost(reqHost) =>
                  /\ WellFormedHostPort(addr.val)
                  /\ carriesPort => SplitHostPort(addr.val).port = own.port

\* str is an optional sign followed by one or more decimal digits.
IsInteger(str) ==
    LET body == IF Len(str) > 0 /\ str[1] \in {"+", "-"} THEN Tail(str)
                                                        ELSE str
    IN  body # << >> /\ \A i \in 1..Len(body) : DigitValue(body[i]) >= 0

\* The number a string of decimal digits denotes, by positional weights.
RECURSIVE DecimalValue(_)
DecimalValue(body) ==
    IF body = << >> THEN 0
    ELSE DigitValue(Head(body)) * 10 ^ (Len(body) - 1)
             + DecimalValue(Tail(body))

\* The integer an IsInteger string denotes.
IntegerValue(str) ==
    IF str[1] = "-" THEN 0 - DecimalValue(Tail(str))
    ELSE IF str[1] = "+" THEN DecimalValue(Tail(str))
    ELSE DecimalValue(str)

\* C12: targetQOS returns the header's integer verbatim when the header is
\* present and is an integer, MinQOS when it is absent, empty or no integer;
\* it always returns and leaves the registries and the lock alone.
C12_TargetQOS ==
    qos.set =>
        /\ (qosHeader.present /\ IsInteger(qosHeader.value)) =>
              qos.val = IntegerValue(qosHeader.value)
        /\ ~(qosHeader.present /\ IsInteger(qosHeader.value)) =>
              qos.val = MinQOS
        /\ conns = << >> /\ clientConns = << >> /\ muWriter = NoHandler

\* C12 witness: the header "-7" came back as -7, below a MinQOS of 3.
C12_Witness ==
    /\ qos.set
    /\ qosHeader = [present |-> TRUE, value |-> << "-", "7" >>]
    /\ MinQOS = 3
    /\ qos.val = 0 - 7


\* C13 as stated: in an established tunnel, once the client-to-outbound copy
\* has ended the outbound connection is eventually closed and out of conns,
\* whatever the upstream does.
C13_ClientCloseEndsTunnel ==
    \A h \in Handlers :
        (Established(h) /\ gpc[h] \in {"wait172", "done"})
            ~> (outClosed[h] /\ h \notin DOMAIN conns)

\* C14 as stated: after a successful hijack a failing RemoteAddr query of
\* the client connection does not abort the attempt: past line 94 the
\* connection has been registered and the attempt goes on to the dial.
C14_ClientAddrTolerated ==
    \A h \in Handlers :
        hijacked[h] = "ok" =>
            /\ pc[h] # "panic94"
            /\ pc[h] \notin {"lock93", "reg94"} => regs[h].clientReg = 1

\* The positions of a handler inside a critical section of muConns.
CriticalSections == {"reg94", "reg131", "del136", "del99"}

\* C15 as stated: muConns is released after every acquisition on every
\* path, abnormal ones included: whoever holds it is inside one of the four
\* critical sections, about to unlock.
C15_LockReleased ==
    \A h \in Handlers : muWriter = h => pc[h] \in CriticalSections

\* pipeData has returned for handler h: intercept is past line 141.
PipeReturned(h) ==
    /\ RespondReturned(h)
    /\ pc[h] \in {"defer134", "lock135", "del136", "defer97", "lock98",
                  "del99", "returned"}

\* C16 as stated: once pipeData has returned, the copy goroutine eventually
\* ends its copy, passes wg.Wait(), closes the client connection and
\* terminates.
C16_CopyTaskEnds ==
    \A h \in Handlers :
        PipeReturned(h) ~> (gpc[h] = "done" /\ clientClosed[h])

\* C17 as stated: every access to a registry is made under its lock, the
\* holder of a lock does nothing but the map operation, and each registry
\* has a lock of its own: a handler inside a critical section of conns
\* never keeps another handler from locking for clientConns.
C17_LockPerRegistry ==
    /\ muReaders > 0 => muWriter = NoHandler
    /\ \A h \in Handlers :
          muWriter = h => pc[h] \in CriticalSections \cup {"panic94"}
    /\ \A h1, h2 \in Handlers :
          (/\ muWriter = h1
           /\ pc[h1] \in {"reg131", "del136"}
           /\ pc[h2] \in {"lock93", "lock98"})
              => (ENABLED Lock93(h2) \/ ENABLED Lock98(h2))

\* What C17 asks of one step, for handler h: its registry entries change
\* only while h holds muConns exclusively, in a step that unlocks, and while
\* h holds muConns its handler moves only through a critical section.
C17_StepOf(h) ==
    /\ (\/ (h \in DOMAIN conns') # (h \in DOMAIN conns)
        \/ (h \in DOMAIN clientConns') # (h \in DOMAIN clientConns))
          => (muWriter = h /\ muReaders = 0 /\ muWriter' = NoHandler)
    /\ (muWriter = h /\ pc'[h] # pc[h]) => pc[h] \in CriticalSections

\* C17 amended: both registries are guarded by the one lock muConns.  Every
\* write of either map is made by the handler holding it exclusively, the
\* reporter iterates while holding it shared and no map changes meanwhile,
\* and the holder takes no step but the map operation with its unlock: no
\* hijack, dial, response write, copy or Close happens under the lock.
C17_OneLockDiscipline ==
    [][/\ muReaders > 0 =>
            /\ muWriter = NoHandler
            /\ conns' = conns /\ clientConns' = clientConns
       /\ \A h \in Handlers : C17_StepOf(h)]_vars

\* C17 witness: a handler registers its outbound connection under muConns
\* while another handler with a hijacked connection waits at line 93.
C17_Witness ==
    \E h1, h2 \in Handlers :
        /\ muWriter = h1 /\ pc[h1] = "reg131"
        /\ pc[h2] = "lock93"

\* C18: whenever an attempt's outbound connection is in conns, the same
\* attempt's client connection is in clientConns.
C18_OutboundImpliesClient ==
    \A h \in Handlers : h \in DOMAIN conns => h \in DOMAIN clientConns

\* C18 witness: the handler has closed both connections and deleted the
\* outbound one; its client connection is still listed, about to be deleted.
C18_Witness ==
    \E h \in Handlers :
        /\ pc[h] = "del99"
        /\ regs[h].outDel = 1
        /\ h \in DOMAIN clientConns /\ h \notin DOMAIN conns

\* The positions of intercept between the registration of connOut and its
\* deregistration.
OutboundRegistered ==
    {"pipe163", "respond177", "copy185", "defer134", "lock135", "del136"}

\* C19: after a successful dial the attempt is never aborted, whatever
\* connOut.RemoteAddr() does: connOut is registered, with the peer address
\* or with "", the attempt goes on to pipeData and the cleanup deregisters.
C19_ServerAddrTolerated ==
    \A h \in Handlers :
        dialErr[h] = "nil" =>
            /\ pc[h] \in {"lock130", "reg131", "defer97", "lock98", "del99",
                          "returned"} \cup OutboundRegistered
            /\ pc[h] \in OutboundRegistered =>
                  /\ h \in DOMAIN conns
                  /\ conns[h].peerAddr \in {"", "peer"}
                  /\ regs[h].outReg = 1
            /\ pc[h] = "returned" => regs[h].outReg = 1 /\ regs[h].outDel = 1

\* C19 witness: a tunnel is copying with its outbound connection registered
\* under the empty peer address.
C19_Witness ==
    \E h \in Handlers :
        /\ pc[h] = "copy185"
        /\ h \in DOMAIN conns
        /\ conns[h].peerAddr = ""

\* C20: the client-to-outbound copy runs before the success response is
\* written and does not wait for it: while respondOK is pending the
\* goroutine has been started, and bytes are relayed only by a started
\* goroutine.
C20_CopyBeforeResponse ==
    \A h \in Handlers :
        /\ pc[h] = "respond177" => gpc[h] \in {"copy167", "wait172"}
        /\ relayed[h] => (gpc[h] # "none" /\ dialErr[h] = "nil")

\* C20 witness: client bytes have reached connOut and respondOK has not
\* returned.
C20_Witness ==
    \E h \in Handlers :
        /\ relayed[h]
        /\ pc[h] = "respond177"
        /\ ~RespondReturned(h)

====
